---- MODULE Spec2Model ----
(***************************************************************************)
(* WordRoom: the word store (Vocabulary) and the adaptive master-detail    *)
(* presentation coordinator (AdaptiveView, WordView and the delegates of   *)
(* WordRoom.py).  Text (words, notes, queries) is a sequence of            *)
(* characters, so that case folding and substring search are computed.     *)
(***************************************************************************)
EXTENDS Integers, Sequences, FiniteSets, TLC

\* ------------------------------------------------------------- bounds
\* Most calls of load_definition (one per word loaded into a pane) in a run.
MaxFetch == 2

\* ------------------------------------------------------------- text
Empty == <<>>
Cat == <<"C", "a">>
cat == <<"c", "a">>
no == <<"n", "o">>
on == <<"o", "n">>
\* The words a user opens (typed, tapped or followed from a link).
Words == {Cat, cat}
\* The notes a user types into the text view.
NoteTexts == {Empty, <<"#", "n">>}
\* The texts a user types into the search field.
QueryTexts == {Empty, cat, Cat}
\* Search texts with the marker of a full-text search, leading and not.
MarkedTexts == {Empty, Cat, <<"#", "n">>, <<"n", "#">>}

\* str.lower() on one character.
LowerChar(c) == IF c = "C" THEN "c" ELSE c

\* Identity key of a word: its case-folded form.
Fold(w) == [i \in 1..Len(w) |-> LowerChar(w[i])]

\* Position of a character in the collating order.
CharCode(c) ==
    CASE c = "#" -> 0
      [] c = "C" -> 1
      [] c = "a" -> 2
      [] c = "c" -> 3
      [] c = "n" -> 4
      [] c = "o" -> 5
      [] OTHER -> 6

\* a < b for two texts, character by character.
RECURSIVE TextLess(_, _)
TextLess(a, b) ==
    IF b = Empty THEN FALSE
    ELSE IF a = Empty THEN TRUE
    ELSE IF CharCode(Head(a)) # CharCode(Head(b))
         THEN CharCode(Head(a)) < CharCode(Head(b))
    ELSE TextLess(Tail(a), Tail(b))

\* needle in haystack (substring containment).
Contains(haystack, needle) ==
    \E i \in 0..(Len(haystack) - Len(needle)) :
        \A j \in 1..Len(needle) : haystack[i + j] = needle[j]

\* str.find(ch) != -1
HasChar(text, ch) == \E i \in 1..Len(text) : text[i] = ch

\* list.index and membership of a list.
InList(x, list) == \E i \in 1..Len(list) : list[i] = x
IndexOf(x, list) == (CHOOSE i \in 1..Len(list) :
                        list[i] = x /\ \A j \in 1..(i - 1) : list[j] # x) - 1

\* The elements of a finite set of texts in ascending order.
RECURSIVE SortTexts(_)
SortTexts(S) ==
    IF S = {} THEN <<>>
    ELSE LET m == CHOOSE x \in S : \A y \in S \ {x} : TextLess(x, y)
         IN  <<m>> \o SortTexts(S \ {m})

\* ------------------------------------------------------------- Vocabulary
\* The word store.  entries maps each stored display form to its notes.

\* Vocabulary.get_notes(word): the notes of the entry with word's identity
\* key, the empty string when there is none.
get_notes(e, word) ==
    IF word \in DOMAIN e THEN e[word]
    ELSE IF \E v \in DOMAIN e : Fold(v) = Fold(word)
         THEN e[CHOOSE v \in DOMAIN e : Fold(v) = Fold(word)]
    ELSE Empty

\* An entry is shown under the query: substring containment, of the folded
\* word in WordScope and of the notes in NoteScope.
Matches(e, q, ft, v) ==
    \/ q = Empty
    \/ ft /\ Contains(e[v], q)
    \/ ~ft /\ Contains(Fold(v), Fold(q))

\* Vocabulary.list_words(section): the filtered words of a section, in
\* order; section 0 holds the annotated words and section 1 the history.
list_words(e, q, ft, section) ==
    SortTexts({v \in DOMAIN e :
                 /\ Matches(e, q, ft, v)
                 /\ IF section = 0 THEN e[v] # Empty ELSE e[v] = Empty})

\* The live-search pseudo-section is present when a query is active and no
\* entry has the query's identity key.
LiveSearch(e, q) ==
    q # Empty /\ ~\E v \in DOMAIN e : Fold(v) = Fold(q)

\* The sections the table shows, first to last.
Sections(e, q, ft) ==
    (IF LiveSearch(e, q) THEN << <<q>> >> ELSE <<>>)
        \o <<list_words(e, q, ft, 0), list_words(e, q, ft, 1)>>

\* The (section, row) coordinates that resolve to a cell.
Coordinates(e, q, ft) ==
    {c \in (0..2) \X (0..(Cardinality(DOMAIN e))) :
        /\ c[1] < Len(Sections(e, q, ft))
        /\ c[2] < Len(Sections(e, q, ft)[c[1] + 1])}

\* Vocabulary.tableview_cell_for_row(table, section, row): the cell's text.
tableview_cell_for_row(e, q, ft, section, row) ==
    Sections(e, q, ft)[section + 1][row + 1]

\* Vocabulary.set_word(word, notes): create or update the entry spelled word.
set_word(e, word, notes) ==
    [v \in DOMAIN e \cup {word} |-> IF v = word THEN notes ELSE e[v]]

\* Vocabulary.del_dup_word(word, notes): drop the stale entries that share
\* word's identity key under another spelling.
del_dup_word(e, word, notes) ==
    [v \in {u \in DOMAIN e : Fold(u) # Fold(word) \/ u = word} |-> e[v]]

\* No coordinate: what set_word and del_dup_word return when no row changed.
NoRow == <<>>

\* The (section, row) at which the table shows an entry, NoRow when the
\* query hides it.
RowOf(e, q, ft, word) ==
    IF \E c \in Coordinates(e, q, ft) :
           tableview_cell_for_row(e, q, ft, c[1], c[2]) = word
    THEN CHOOSE c \in Coordinates(e, q, ft) :
           tableview_cell_for_row(e, q, ft, c[1], c[2]) = word
    ELSE NoRow

\* The row Vocabulary.set_word(word, notes) returns: the coordinate of the
\* entry it created, NoRow when it updated an entry.
set_word_row(e, q, ft, word, notes) ==
    IF word \in DOMAIN e THEN NoRow
    ELSE RowOf(set_word(e, word, notes), q, ft, word)

\* The row Vocabulary.del_dup_word(word, notes) returns: the coordinate the
\* stale spelling had, NoRow when there was none.
del_dup_word_row(e, q, ft, word) ==
    IF \E u \in DOMAIN e : Fold(u) = Fold(word) /\ u # word
    THEN RowOf(e, q, ft, CHOOSE u \in DOMAIN e : Fold(u) = Fold(word) /\ u # word)
    ELSE NoRow

\* The store without one entry.
delete_word(e, word) == [v \in DOMAIN e \ {word} |-> e[v]]

\* Delete the entries at the coordinates one after the other, each
\* coordinate resolved in the store as the deletions before it left it.
\* offset is 1 when the table shows the live-search section.
RECURSIVE DeleteEach(_, _, _, _, _)
DeleteEach(e, q, ft, offset, rows) ==
    IF rows = <<>> THEN [entries |-> e, words |-> <<>>]
    ELSE LET c == Head(rows)
             words == IF c[1] - offset \in {0, 1}
                      THEN list_words(e, q, ft, c[1] - offset) ELSE <<>>
         IN  IF c[2] < Len(words)
             THEN LET rest == DeleteEach(delete_word(e, words[c[2] + 1]), q, ft,
                                         offset, Tail(rows))
                  IN  [entries |-> rest.entries,
                       words |-> <<words[c[2] + 1]>> \o rest.words]
             ELSE DeleteEach(e, q, ft, offset, Tail(rows))

\* The coordinates in descending order: highest section, then highest row.
RECURSIVE SortDescending(_)
SortDescending(rows) ==
    IF rows = <<>> THEN <<>>
    ELSE LET i == CHOOSE i \in 1..Len(rows) : \A j \in 1..Len(rows) :
                      \/ rows[j][1] < rows[i][1]
                      \/ rows[j][1] = rows[i][1] /\ rows[j][2] <= rows[i][2]
         IN  <<rows[i]>> \o SortDescending(SubSeq(rows, 1, i - 1)
                                             \o SubSeq(rows, i + 1, Len(rows)))

\* delete_multiple as it would be if it deleted in the order listed.
delete_multiple_as_listed(e, q, ft, rows) ==
    DeleteEach(e, q, ft, IF LiveSearch(e, q) THEN 1 ELSE 0, rows)

\* Vocabulary.delete_multiple(rows): delete highest row first, return the
\* removed words.
delete_multiple(e, q, ft, rows) ==
    DeleteEach(e, q, ft, IF LiveSearch(e, q) THEN 1 ELSE 0, SortDescending(rows))

\* Vocabulary.random_word(): any stored word; fails with Empty on an empty
\* store.
random_word(e) == DOMAIN e

\* Vocabulary.load_json_file(f): the store becomes the file's data; a file
\* that is not valid JSON raises json.JSONDecodeError and changes nothing.
load_json_file(e, f) == IF f.valid THEN f.data ELSE e

\* Vocabulary.set_query(text)
set_query(text) == text

\* At most one entry per identity key.
UniqueKeys(e) ==
    \A u, v \in DOMAIN e : Fold(u) = Fold(v) => u = v

\* The stores the runs start from: a fresh installation, and a data file
\* with one word in the history.
InitialStores == {<< >>, [v \in {cat} |-> Empty]}

\* The stores the runs with table editing start from.
EditStores == {<< >>, [v \in {cat, no, on} |-> Empty]}

\* What the document picker returns in action_import: nothing, a file that
\* is not JSON, a vocabulary file.
ImportFiles ==
    {[picked |-> FALSE, valid |-> FALSE, data |-> << >>],
     [picked |-> TRUE, valid |-> FALSE, data |-> << >>],
     [picked |-> TRUE, valid |-> TRUE, data |-> [v \in {no} |-> <<"#", "n">>]]}

\* The entry sets a data file can hold.
Stores ==
    {e \in UNION {[D -> NoteTexts] : D \in SUBSET Words} : UniqueKeys(e)}

\* ------------------------------------------------------------- state
VARIABLES
    entries,          \* vocab: stored display form -> notes
    query,            \* vocab.query
    fulltext_toggle,  \* vocab.fulltext_toggle
    size_class,       \* what container.horizontal_size_class() returns
    last_layout,      \* container.last_layout
    open_words,       \* container.open_words
    nav_stack,        \* detail screens pushed on container.nav_column
    views,            \* word_view and compact_word_view
    fetching,         \* load_definition calls queued on the background thread
    selected_rows,    \* lookup_view['table'].selected_rows
    fetched,          \* calls of load_definition made so far
    op,               \* the handler that ran last and what it did
    focus,            \* how far the open-then-rotate scenario has come
    editing,          \* lookup_view['table'].editing
    did               \* what the last handler handed to the table, the store
                      \* file and the HUD

vars == <<entries, query, fulltext_toggle, size_class, last_layout, open_words,
          nav_stack, views, fetching, selected_rows, fetched, op, focus,
          editing, did>>

\* AdaptiveView.COMPACT, AdaptiveView.REGULAR and the initial last_layout.
COMPACT == 1
REGULAR == 2
None == 0

ViewNames == {"word_view", "compact_word_view"}
\* container.content_column is word_view (AdaptiveView(lookup_view, word_view)).
content_column == "word_view"

\* What the html_definition web view holds.
NoHtml == <<"empty">>
LoadingHtml == <<"loading">>
DefinitionHtml(word) == <<"definition", word>>

\* A WordView as loaded from the UI file, the blank placeholder on top.
BlankView == [word |-> Empty, textview |-> Empty, blank_hidden |-> FALSE,
              selected_index |-> 0, html |-> NoHtml]

\* What one handler did: pane reloads, fetches started, runs of select_word,
\* assignments of selected_rows, pushes and pops.
NoLog == [loads |-> 0, fetches |-> 0, selects |-> 0, sets |-> 0,
          pushes |-> 0, pops |-> 0]

\* The record of a handler whose effects are not looked at.  was is
\* open_words before the handler; again says that the handler's run of
\* select_word directly followed a run on the same pane and word, and prior
\* is the number of assignments that earlier run made.
Other == [name |-> "other", view |-> "none", word |-> Empty, log |-> NoLog,
          was |-> <<>>, again |-> FALSE, prior |-> 0]

\* No word was opened in compact mode by the last handlers.
NoFocus == [phase |-> 0, word |-> Empty]

\* The table after row mutations: the rows it holds, and whether a mutation
\* named an index path that the table does not have (UIKit raises).
TableOf(rows) == [raised |-> FALSE, rows |-> rows]

\* What a handler handed over: the words delete_multiple returned, the
\* (section, row) coordinates of the rows that the store or the table
\* reported as new and as gone, the tuples passed to insert_rows and
\* delete_rows, the table after them, the message on the HUD, whether
\* load_json_file raised, whether save_json_file and table.reload() ran, and
\* whether WordView.clear() ran.
Idle == [name |-> "idle", removed |-> <<>>, new_rows |-> <<>>,
         old_rows |-> <<>>, inserted |-> <<>>, deleted |-> <<>>,
         table |-> TableOf(<<>>),
         hud |-> "", failed |-> FALSE, saved |-> FALSE, reloaded |-> FALSE,
         cleared |-> FALSE]

\* The part of the state that the views and the container work on.
Ui == [views |-> views, fetching |-> fetching, selected_rows |-> selected_rows,
       nav |-> nav_stack, open_words |-> open_words,
       last_layout |-> last_layout, log |-> NoLog]

Bump(log, field) == [log EXCEPT ![field] = @ + 1]

\* ------------------------------------------------------------- WordView
\* select_word as it would be without the comparison before the assignment.
select_word_without_compare(u, v) ==
    LET view == u.views[v]
        section == IF view.textview # Empty THEN 0 ELSE 1
        words == list_words(entries, query, fulltext_toggle, section)
        shown == IF query # Empty THEN section + 1 ELSE section
        ran == [u EXCEPT !.log = Bump(@, "selects")]
    IN  IF InList(view.word, words)
        THEN [ran EXCEPT !.selected_rows = << <<shown, IndexOf(view.word, words)>> >>,
                         !.log = Bump(@, "sets")]
        ELSE ran

\* WordView.select_word
select_word(u, v) ==
    LET view == u.views[v]
        section == IF view.textview # Empty THEN 0 ELSE 1
        words == list_words(entries, query, fulltext_toggle, section)
        shown == IF query # Empty THEN section + 1 ELSE section
        ran == [u EXCEPT !.log = Bump(@, "selects")]
    IN  IF InList(view.word, words)
        THEN LET row == IndexOf(view.word, words)
             IN  IF u.selected_rows # << <<shown, row>> >>
                 THEN [ran EXCEPT !.selected_rows = << <<shown, row>> >>,
                                  !.log = Bump(@, "sets")]
                 ELSE ran
        ELSE ran

\* load_word as it would be without the early return for an unchanged word.
load_word_without_skip(u, v, word, force) ==
    LET notes == get_notes(entries, word)
        loaded == [word |-> word,
                   textview |-> notes,
                   blank_hidden |-> TRUE,
                   selected_index |-> IF notes # Empty THEN 0 ELSE 1,
                   html |-> IF notes # Empty THEN u.views[v].html
                            ELSE LoadingHtml]
        started == [u EXCEPT
            !.views[v] = loaded,
            !.fetching = Append(@, [view |-> v, word |-> word,
                                    stage |-> "define"]),
            !.log = Bump(Bump(@, "loads"), "fetches")]
    IN  select_word(started, v)

\* WordView.load_word(word, force)
load_word(u, v, word, force) ==
    IF u.views[v].word = word /\ ~force THEN u
    ELSE LET notes == get_notes(entries, word)
             loaded == [word |-> word,
                        textview |-> notes,
                        blank_hidden |-> TRUE,
                        selected_index |-> IF notes # Empty THEN 0 ELSE 1,
                        html |-> IF notes # Empty THEN u.views[v].html
                                 ELSE LoadingHtml]
             started == [u EXCEPT
                 !.views[v] = loaded,
                 !.fetching = Append(@, [view |-> v, word |-> word,
                                         stage |-> "define"]),
                 !.log = Bump(Bump(@, "loads"), "fetches")]
         IN  select_word(started, v)

\* ui.NavigationView.push_view / pop_view on container.nav_column; popping
\* with no detail screen pushed leaves the root view in place.
push_view(u) == [u EXCEPT !.nav = @ + 1, !.log = Bump(@, "pushes")]
pop_view(u) == [u EXCEPT !.nav = IF @ > 0 THEN @ - 1 ELSE 0,
                         !.log = Bump(@, "pops")]

\* clear as it would be if it left open_words alone.
clear_keeping_open_words(u, v) ==
    [u EXCEPT !.views[v] = [@ EXCEPT !.blank_hidden = FALSE,
                                     !.word = Empty,
                                     !.textview = Empty,
                                     !.html = NoHtml]]

\* WordView.clear
clear(u, v) ==
    [u EXCEPT !.views[v] = [@ EXCEPT !.blank_hidden = FALSE,
                                     !.word = Empty,
                                     !.textview = Empty,
                                     !.html = NoHtml],
              !.open_words = <<>>]

\* WordView.action_search: in compact mode one pop per open word.
RECURSIVE PopEach(_, _)
PopEach(u, words) ==
    IF words = <<>> THEN u ELSE PopEach(pop_view(u), Tail(words))

action_search(u) ==
    IF size_class = COMPACT THEN PopEach(u, u.open_words) ELSE u

\* ------------------------------------------------------------- functions
\* load_word_view as it would be if it appended to open_words.
load_word_view_appending(u, word) ==
    LET opened == IF size_class = REGULAR
                  THEN load_word(u, "word_view", word, FALSE)
                  ELSE push_view(load_word(u, "compact_word_view", word, FALSE))
    IN  [opened EXCEPT !.open_words = Append(@, word)]

\* load_word_view(word)
load_word_view(u, word) ==
    LET opened == IF size_class = REGULAR
                  THEN load_word(u, "word_view", word, FALSE)
                  ELSE push_view(load_word(u, "compact_word_view", word, FALSE))
    IN  [opened EXCEPT !.open_words = <<word>>]

\* ------------------------------------------------------------- AdaptiveView
\* The loop of set_compact: load and push every open word.
RECURSIVE PushEach(_, _)
PushEach(u, words) ==
    IF words = <<>> THEN u
    ELSE PushEach(push_view(load_word(u, "compact_word_view", Head(words), FALSE)),
                  Tail(words))

\* AdaptiveView.set_compact
set_compact(u) ==
    [PushEach(u, u.open_words) EXCEPT !.last_layout = COMPACT]

\* The loop of set_regular as it would be if it only popped.
PopWithoutLoad(u, words) == PopEach(u, words)

\* The loop of set_regular: pop and load every open word.
RECURSIVE PopAndLoadEach(_, _)
PopAndLoadEach(u, words) ==
    IF words = <<>> THEN u
    ELSE PopAndLoadEach(load_word(pop_view(u), content_column, Head(words), FALSE),
                        Tail(words))

\* AdaptiveView.set_regular
set_regular(u) ==
    [(IF u.last_layout = COMPACT THEN PopAndLoadEach(u, u.open_words) ELSE u)
        EXCEPT !.last_layout = REGULAR]

\* The pane load_word_view opens a word in.
ActiveView == IF size_class = REGULAR THEN "word_view" ELSE "compact_word_view"

\* layout as it would be without the comparison with last_layout.
layout_without_last_layout(u, horizontal_size_class) ==
    IF horizontal_size_class = REGULAR THEN set_regular(u) ELSE set_compact(u)

\* AdaptiveView.layout
layout(u, horizontal_size_class) ==
    LET new_layout == horizontal_size_class
        first == IF new_layout = REGULAR /\ u.last_layout # REGULAR
                 THEN set_regular(u) ELSE u
    IN  IF new_layout = COMPACT /\ first.last_layout # COMPACT
        THEN set_compact(first) ELSE first

\* ------------------------------------------------------------- steps
\* A handler ran on the main thread and left the views and the container as u.
CommitUi(u, name, v, word) ==
    /\ fetched + u.log.fetches <= MaxFetch
    /\ fetched' = fetched + u.log.fetches
    /\ views' = u.views
    /\ fetching' = u.fetching
    /\ selected_rows' = u.selected_rows
    /\ nav_stack' = u.nav
    /\ open_words' = u.open_words
    /\ last_layout' = u.last_layout
    /\ op' = IF name = "other" THEN Other
             ELSE LET again == /\ u.log.selects > 0
                               /\ op.log.selects > 0
                               /\ op.view = v
                               /\ u.views[v].word = views[v].word
                  IN  [name |-> name, view |-> v, word |-> word, log |-> u.log,
                       was |-> open_words, again |-> again,
                       prior |-> IF again THEN op.log.sets ELSE 0]
    /\ focus' = CASE name = "load_word_view" /\ size_class = COMPACT
                        -> [phase |-> 1, word |-> word]
                   [] name = "layout_same" -> focus
                   [] name = "layout" /\ focus.phase = 1 /\ u.last_layout = REGULAR
                        -> [focus EXCEPT !.phase = 2]
                   [] name = "layout" /\ focus.phase = 2 /\ u.last_layout = COMPACT
                        -> [focus EXCEPT !.phase = 3]
                   [] OTHER -> NoFocus

\* A handler that leaves the table's editing mode alone and hands the table
\* no row mutation, the store file nothing and the HUD no message.
Commit(u, name, v, word) ==
    /\ CommitUi(u, name, v, word)
    /\ editing' = editing
    /\ did' = Idle

\* What the user can reach: the lookup view is the root of the navigation
\* column, the regular pane is shown by set_regular and hidden by set_compact,
\* the compact pane is the screen on top of the navigation column.
Presented == last_layout # None
LookupVisible == Presented /\ nav_stack = 0
Visible(v) ==
    IF v = content_column THEN last_layout = REGULAR
    ELSE Presented /\ nav_stack > 0

\* The pane shows a rendered definition, whose links can be tapped.
HasLinks(v) == views[v].blank_hidden /\ views[v].html[1] = "definition"

Init ==
    /\ entries \in InitialStores
    /\ query = Empty
    /\ fulltext_toggle = FALSE
    /\ size_class \in {COMPACT, REGULAR}
    /\ last_layout = None
    /\ open_words = <<>>
    /\ nav_stack = 0
    /\ views = [v \in ViewNames |-> BlankView]
    /\ fetching = <<>>
    /\ selected_rows = <<>>
    /\ fetched = 0
    /\ op = Other
    /\ focus = NoFocus
    /\ editing = FALSE
    /\ did = Idle

\* The system lays the container out: on presentation, when the horizontal
\* size class changes (rotation, split screen) and when only the size does.
\* The layout pass follows the trait change within one turn of the main
\* thread, so every handler reads the size class layout() was called for.
Layout ==
    /\ \E new_size_class \in {COMPACT, REGULAR} :
         /\ last_layout = None => new_size_class = size_class
         /\ size_class' = new_size_class
         /\ Commit(layout(Ui, new_size_class),
                   IF new_size_class = last_layout THEN "layout_same"
                   ELSE "layout",
                   IF new_size_class = REGULAR THEN content_column
                   ELSE "compact_word_view",
                   Empty)
    /\ UNCHANGED <<entries, query, fulltext_toggle>>

\* TableViewDelegate.tableview_did_select outside editing: the tapped row is
\* selected and its word is opened.
TableviewDidSelect ==
    /\ LookupVisible
    /\ ~editing
    /\ \E c \in Coordinates(entries, query, fulltext_toggle) :
         LET word == tableview_cell_for_row(entries, query, fulltext_toggle,
                                            c[1], c[2])
             tapped == [Ui EXCEPT !.selected_rows = <<c>>]
         IN  Commit(load_word_view(tapped, word), "load_word_view", ActiveView,
                    word)
    /\ UNCHANGED <<entries, query, fulltext_toggle, size_class>>

\* SearchDelegate.textfield_should_return: open the typed text.
TextfieldShouldReturn ==
    /\ LookupVisible
    /\ query # Empty
    /\ Commit(load_word_view(Ui, query), "load_word_view", ActiveView, query)
    /\ UNCHANGED <<entries, query, fulltext_toggle, size_class>>

\* WebDelegate.webview_should_start_load, a wordroom://word/<word> link.
LinkClicked ==
    /\ \E v \in ViewNames, word \in Words :
         /\ Visible(v) /\ HasLinks(v)
         /\ Commit(load_word(Ui, v, word, FALSE), "other", v, word)
    /\ UNCHANGED <<entries, query, fulltext_toggle, size_class>>

\* WebDelegate.webview_should_start_load, the wordroom://-change_key link.
ChangeKeyClicked ==
    /\ \E v \in ViewNames :
         /\ Visible(v) /\ HasLinks(v)
         /\ Commit(load_word(Ui, v, views[v].word, TRUE), "link_change_key",
                   v, views[v].word)
    /\ UNCHANGED <<entries, query, fulltext_toggle, size_class>>

\* The lookup button of a WordView.
ActionSearch ==
    /\ \E v \in ViewNames :
         /\ Visible(v)
         /\ Commit(action_search(Ui), "other", v, views[v].word)
    /\ UNCHANGED <<entries, query, fulltext_toggle, size_class>>

\* table.reload(): the table is rebuilt from the store and, as UITableView
\* does on reloadData, drops its selection.
reload(u) == [u EXCEPT !.selected_rows = <<>>]

\* action_switch_search(sender): the scope follows the segmented control.
action_switch_search(selected_index) == selected_index # 0

\* SearchDelegate.textfield_did_change: the scope after the text changed.
textfield_did_change_scope(text, ft) ==
    IF HasChar(text, "#") THEN action_switch_search(1) ELSE ft

\* SearchDelegate.textfield_did_change
textfield_did_change(text) ==
    /\ text # query
    /\ query' = set_query(text)
    /\ fulltext_toggle' = textfield_did_change_scope(text, fulltext_toggle)
    /\ Commit(reload(Ui), "other", "none", text)
    /\ UNCHANGED <<entries, size_class>>

TextfieldDidChange ==
    /\ LookupVisible
    /\ \E text \in QueryTexts : textfield_did_change(text)

\* action_cancel: empty the search field and search again.
ActionCancel ==
    /\ LookupVisible
    /\ query' = set_query(Empty)
    /\ fulltext_toggle' = textfield_did_change_scope(Empty, fulltext_toggle)
    /\ Commit(reload(Ui), "other", "none", Empty)
    /\ UNCHANGED <<entries, size_class>>

\* action_switch_search: the user flips the scope control.
ActionSwitchSearch ==
    /\ LookupVisible
    /\ \E selected_index \in {0, 1} :
         /\ action_switch_search(selected_index) # fulltext_toggle
         /\ fulltext_toggle' = action_switch_search(selected_index)
         /\ Commit(reload(Ui), "other", "none", Empty)
    /\ UNCHANGED <<entries, query, size_class>>

\* ui.TableView reads the tuples of a row mutation as (row, section): the
\* table has the index path c.
InTable(rows, c) == c[2] < Len(rows) /\ c[1] < Len(rows[c[2] + 1])

\* The rows of one section without those at the dropped indices.
RECURSIVE Keep(_, _, _)
Keep(list, drop, i) ==
    IF list = <<>> THEN <<>>
    ELSE (IF i \in drop THEN <<>> ELSE <<Head(list)>>)
             \o Keep(Tail(list), drop, i + 1)

\* table.delete_rows(coords)
delete_rows(table, coords) ==
    IF table.raised \/ \E i \in 1..Len(coords) : ~InTable(table.rows, coords[i])
    THEN [table EXCEPT !.raised = TRUE]
    ELSE TableOf([s \in 1..Len(table.rows) |->
             Keep(table.rows[s],
                  {coords[i][1] : i \in {j \in 1..Len(coords) : coords[j][2] = s - 1}},
                  0)])

\* table.insert_rows([c]): the table takes the cell of the new index path
\* from its data source, whose sections are given.
insert_rows(table, sections, c) ==
    IF \/ table.raised
       \/ c[2] >= Len(table.rows) \/ c[2] >= Len(sections)
       \/ c[1] > Len(table.rows[c[2] + 1]) \/ c[1] >= Len(sections[c[2] + 1])
    THEN [table EXCEPT !.raised = TRUE]
    ELSE TableOf([table.rows EXCEPT ![c[2] + 1] =
             SubSeq(@, 1, c[1]) \o <<sections[c[2] + 1][c[1] + 1]>>
                 \o SubSeq(@, c[1] + 1, Len(@))])

\* TextViewDelegate.textview_did_end_editing: the store after the save.
textview_did_end_editing(e, word, notes) ==
    del_dup_word(set_word(e, word, notes), word, notes)

\* TextViewDelegate.textview_did_end_editing: the rows the store returned
\* and what was passed on to the table.
textview_did_end_editing_rows(e, q, ft, word, notes) ==
    LET saved == set_word(e, word, notes)
        row == set_word_row(e, q, ft, word, notes)
        inserted == IF row # NoRow
                    THEN insert_rows(TableOf(Sections(e, q, ft)),
                                     Sections(saved, q, ft), row)
                    ELSE TableOf(Sections(e, q, ft))
        dup == del_dup_word_row(saved, q, ft, word)
    IN  [Idle EXCEPT
            !.name = "textview_did_end_editing",
            !.new_rows = IF row # NoRow THEN <<row>> ELSE <<>>,
            !.old_rows = IF dup # NoRow THEN <<dup>> ELSE <<>>,
            !.inserted = IF row # NoRow THEN <<row>> ELSE <<>>,
            !.deleted = IF dup # NoRow THEN <<dup>> ELSE <<>>,
            !.table = IF dup # NoRow THEN delete_rows(inserted, <<dup>>)
                      ELSE inserted]

\* The user edits the notes of the open word and leaves the text view; the
\* rows handed to the table are not looked at.
TextviewDidEndEditing ==
    /\ \E v \in ViewNames, notes \in NoteTexts :
         /\ Visible(v) /\ views[v].blank_hidden
         /\ entries' = textview_did_end_editing(entries, views[v].word, notes)
         /\ Commit([Ui EXCEPT !.views[v].textview = notes],
                   "other", v, views[v].word)
    /\ UNCHANGED <<query, fulltext_toggle, size_class>>

\* The same handler with the rows it hands to the table.
TextviewDidEndEditingRows ==
    /\ \E v \in ViewNames, notes \in NoteTexts :
         /\ Visible(v) /\ views[v].blank_hidden
         /\ entries' = textview_did_end_editing(entries, views[v].word, notes)
         /\ CommitUi([Ui EXCEPT !.views[v].textview = notes],
                     "other", v, views[v].word)
         /\ did' = textview_did_end_editing_rows(entries, query, fulltext_toggle,
                                                 views[v].word, notes)
    /\ UNCHANGED <<query, fulltext_toggle, size_class, editing>>

\* WordView.load_definition runs on the background thread, one call at a
\* time.  First part: fetch, render, show the html and decide whether the
\* word goes to the history.
load_definition_html(view, word) == [view EXCEPT !.html = DefinitionHtml(word)]

load_definition_saves(e, word, found) == found /\ get_notes(e, word) = Empty

LoadDefinition ==
    /\ fetching # <<>>
    /\ Head(fetching).stage = "define"
    /\ \E found \in BOOLEAN :
         LET call == Head(fetching)
         IN  /\ views' = [views EXCEPT ![call.view] =
                              load_definition_html(@, call.word)]
             /\ fetching' = IF load_definition_saves(entries, call.word, found)
                            THEN <<[call EXCEPT !.stage = "save"]>> \o Tail(fetching)
                            ELSE Tail(fetching)
    /\ UNCHANGED <<entries, query, fulltext_toggle, size_class, last_layout,
                   open_words, nav_stack, selected_rows, fetched, op, focus,
                   editing, did>>

\* Second part of load_definition: vocab.set_word(word).
load_definition_set_word(e, word) == set_word(e, word, Empty)

LoadDefinitionSave ==
    /\ fetching # <<>>
    /\ Head(fetching).stage = "save"
    /\ entries' = load_definition_set_word(entries, Head(fetching).word)
    /\ fetching' = Tail(fetching)
    /\ op' = Other
    /\ did' = Idle
    /\ UNCHANGED <<query, fulltext_toggle, size_class, last_layout, open_words,
                   nav_stack, views, selected_rows, fetched, focus, editing>>

\* ------------------------------------------------------------- the table
\* The rows of entries: every row but the live-search row.
EntryRows(e, q, ft) ==
    {c \in Coordinates(e, q, ft) : ~(LiveSearch(e, q) /\ c[1] = 0)}

\* LookupView.start_editing and end_editing; UITableView drops its selection
\* when it enters or leaves editing mode.
StartEditing ==
    /\ LookupVisible
    /\ ~editing
    /\ editing' = TRUE
    /\ CommitUi([Ui EXCEPT !.selected_rows = <<>>], "other", "none", Empty)
    /\ did' = Idle
    /\ UNCHANGED <<entries, query, fulltext_toggle, size_class>>

EndEditing ==
    /\ LookupVisible
    /\ editing
    /\ editing' = FALSE
    /\ CommitUi([Ui EXCEPT !.selected_rows = <<>>], "other", "none", Empty)
    /\ did' = Idle
    /\ UNCHANGED <<entries, query, fulltext_toggle, size_class>>

\* TableViewDelegate.tableview_did_select while editing: the tapped row
\* joins the selection and the delete button is enabled.
TableviewDidSelectEditing ==
    /\ LookupVisible
    /\ editing
    /\ \E c \in EntryRows(entries, query, fulltext_toggle) :
         /\ ~InList(c, selected_rows)
         /\ Commit([Ui EXCEPT !.selected_rows = Append(@, c)],
                   "other", "none", Empty)
    /\ UNCHANGED <<entries, query, fulltext_toggle, size_class>>

\* LookupView.action_delete: the tuples passed to table.delete_rows.
action_delete_rows(rows) == [i \in 1..Len(rows) |-> <<rows[i][2], rows[i][1]>>]

\* LookupView.action_delete: clear the regular pane when it displays one of
\* the deleted words.
action_delete_clear(u, words) ==
    IF InList(u.views[content_column].word, words)
    THEN clear(u, content_column) ELSE u

\* LookupView.action_delete
ActionDelete ==
    /\ LookupVisible
    /\ editing
    /\ selected_rows # <<>>
    /\ LET rows == selected_rows
           deleted == delete_multiple(entries, query, fulltext_toggle, rows)
           gone == [Ui EXCEPT !.selected_rows = <<>>]
       IN  /\ entries' = deleted.entries
           /\ CommitUi(action_delete_clear(gone, deleted.words),
                       "other", "none", Empty)
           /\ did' = [Idle EXCEPT
                  !.name = "action_delete",
                  !.removed = deleted.words,
                  !.old_rows = rows,
                  !.deleted = action_delete_rows(rows),
                  !.table = delete_rows(
                      TableOf(Sections(entries, query, fulltext_toggle)),
                      action_delete_rows(rows)),
                  !.hud = "Deleted word(s).",
                  !.cleared = InList(views[content_column].word, deleted.words)]
    /\ UNCHANGED <<query, fulltext_toggle, size_class, editing>>

\* action_random: the HUD, then load_word_view(vocab.random_word()); on an
\* empty store random_word fails and the handler ends there.
action_random_hud == "Random word opened."

ActionRandom ==
    /\ LookupVisible
    /\ IF random_word(entries) = {}
       THEN CommitUi(Ui, "other", "none", Empty)
       ELSE \E word \in random_word(entries) :
                CommitUi(load_word_view(Ui, word), "load_word_view",
                         ActiveView, word)
    /\ did' = [Idle EXCEPT !.name = "action_random", !.hud = action_random_hud]
    /\ UNCHANGED <<entries, query, fulltext_toggle, size_class, editing>>

\* action_import as it would be without the return in the except clause.
action_import_without_return(e, choice, f) ==
    IF ~choice \/ ~f.picked
    THEN [entries |-> e, failed |-> FALSE, saved |-> FALSE, reloaded |-> FALSE,
          hud |-> ""]
    ELSE IF ~f.valid
    THEN [entries |-> load_json_file(e, f), failed |-> TRUE, saved |-> FALSE,
          reloaded |-> TRUE, hud |-> "Import was successful."]
    ELSE [entries |-> load_json_file(e, f), failed |-> FALSE, saved |-> TRUE,
          reloaded |-> TRUE, hud |-> "Import was successful."]

\* action_import: the store, whether load_json_file raised, whether
\* save_json_file and table.reload() ran, and the HUD.
action_import(e, choice, f) ==
    IF ~choice \/ ~f.picked
    THEN [entries |-> e, failed |-> FALSE, saved |-> FALSE, reloaded |-> FALSE,
          hud |-> ""]
    ELSE IF ~f.valid
    THEN [entries |-> load_json_file(e, f), failed |-> TRUE, saved |-> FALSE,
          reloaded |-> FALSE, hud |-> "Invalid JSON file."]
    ELSE [entries |-> load_json_file(e, f), failed |-> FALSE, saved |-> TRUE,
          reloaded |-> TRUE, hud |-> "Import was successful."]

\* action_import runs on the background thread, when no load_definition is
\* ahead of it.
ActionImport ==
    /\ LookupVisible
    /\ fetching = <<>>
    /\ \E choice \in BOOLEAN, f \in ImportFiles :
         LET import == action_import(entries, choice, f)
         IN  /\ entries' = import.entries
             /\ CommitUi(IF import.reloaded THEN reload(Ui) ELSE Ui,
                         "other", "none", Empty)
             /\ did' = [Idle EXCEPT !.name = "action_import",
                                    !.hud = import.hud,
                                    !.failed = import.failed,
                                    !.saved = import.saved,
                                    !.reloaded = import.reloaded]
    /\ UNCHANGED <<query, fulltext_toggle, size_class, editing>>

\* SearchDelegate.textfield_did_change with the marked search texts.
TextfieldDidChangeMarked ==
    /\ LookupVisible
    /\ \E text \in MarkedTexts : textfield_did_change(text)

Next ==
    \/ Layout
    \/ TableviewDidSelect
    \/ TextfieldShouldReturn
    \/ LinkClicked
    \/ ChangeKeyClicked
    \/ ActionSearch
    \/ TextfieldDidChange
    \/ ActionCancel
    \/ ActionSwitchSearch
    \/ TextviewDidEndEditing
    \/ LoadDefinition
    \/ LoadDefinitionSave

Spec == Init /\ [][Next]_vars

\* The runs with table editing, deletion and import.
EditInit ==
    /\ entries \in EditStores
    /\ query = Empty
    /\ fulltext_toggle = FALSE
    /\ size_class \in {COMPACT, REGULAR}
    /\ last_layout = None
    /\ open_words = <<>>
    /\ nav_stack = 0
    /\ views = [v \in ViewNames |-> BlankView]
    /\ fetching = <<>>
    /\ selected_rows = <<>>
    /\ fetched = 0
    /\ op = Other
    /\ focus = NoFocus
    /\ editing = FALSE
    /\ did = Idle

EditNext ==
    \/ Layout
    \/ TableviewDidSelect
    \/ ActionSearch
    \/ StartEditing
    \/ EndEditing
    \/ TableviewDidSelectEditing
    \/ ActionDelete
    \/ ActionImport
    \/ LoadDefinition
    \/ LoadDefinitionSave

EditSpec == EditInit /\ [][EditNext]_vars

\* The runs with marked searches, note edits with their row mutations and
\* the random word.
StoreNext ==
    \/ Layout
    \/ TextfieldDidChangeMarked
    \/ TextfieldShouldReturn
    \/ TextviewDidEndEditingRows
    \/ ActionRandom
    \/ LoadDefinition
    \/ LoadDefinitionSave

StoreSpec == EditInit /\ [][StoreNext]_vars

TypeOK ==
    /\ DOMAIN entries \subseteq Words \cup {no, on}
    /\ nav_stack \in 0..2
    /\ Len(fetching) <= fetched /\ fetched <= MaxFetch
    /\ Len(open_words) <= 1

\* ------------------------------------------------------------- claims
\* A word resolves when it is an entry of the store that the query shows;
\* CoordinateOf is the (section, row) at which the table shows it.
Resolves(word) ==
    /\ word \in DOMAIN entries
    /\ Matches(entries, query, fulltext_toggle, word)
CoordinateOf(word) ==
    CHOOSE c \in Coordinates(entries, query, fulltext_toggle) :
        tableview_cell_for_row(entries, query, fulltext_toggle, c[1], c[2]) = word

\* C1: a word opened with load_word_view in compact mode is, after the
\* following change to regular, displayed by the regular pane with no detail
\* screen left on the navigation stack; after the following change back to
\* compact it is the only open word and the only detail screen shows it.
FocusPreserved ==
    /\ focus.phase = 2 =>
         /\ nav_stack = 0
         /\ views[content_column].word = focus.word
         /\ views[content_column].blank_hidden
    /\ focus.phase = 3 =>
         /\ open_words = <<focus.word>>
         /\ nav_stack = 1
         /\ views["compact_word_view"].word = focus.word
         /\ views["compact_word_view"].blank_hidden

\* C1 witness: a word went compact -> regular -> compact.
FocusRoundTrip == focus.phase = 3 /\ focus.word \in Words

\* C2: a definition fetched for a word the pane no longer displays is
\* discarded: the pane is left as it was.
StaleFetchDiscarded ==
    [][(LoadDefinition /\ views[Head(fetching).view].word # Head(fetching).word)
          => views' = views]_vars

\* C3: the store never holds two entries with one case-folded identity key.
StoreUniqueness == UniqueKeys(entries)

\* C4: after a run of select_word the selection is exactly the coordinate of
\* the displayed word, and empty when the word has no coordinate.
SelectionSync ==
    op.log.selects > 0 =>
        LET word == views[op.view].word
        IN  IF Resolves(word)
            THEN selected_rows = <<CoordinateOf(word)>>
            ELSE selected_rows = <<>>

\* C5: two runs of select_word in a row on the same pane and word, with the
\* store and the query unchanged, assign selected_rows at most once in total.
SelectIdempotent == op.again => op.prior + op.log.sets <= 1

\* C5 witness: the first run assigned the selection, the second compared
\* and did not.
SelectTwice == op.again /\ op.prior = 1 /\ op.log.sets = 0

\* C6: a call of layout() for the mode already applied pushes nothing, pops
\* nothing, loads nothing and leaves open_words, the navigation stack and
\* both panes as they were.
DuplicateLayoutNoop ==
    [][(op'.name = "layout_same" /\ Layout) =>
          /\ UNCHANGED <<open_words, nav_stack, views, fetching, selected_rows,
                         last_layout>>
          /\ op'.log = NoLog]_vars

\* C6 witness: a duplicate notification arrived in compact mode with a word
\* open and its detail screen pushed.
DuplicateLayout ==
    /\ op.name = "layout_same"
    /\ last_layout = COMPACT
    /\ open_words # <<>>
    /\ nav_stack = 1

\* C7: in regular mode open_words has at most one entry.
RegularOneOpenWord == last_layout = REGULAR => Len(open_words) <= 1

\* C7 witness: in regular mode a second word was opened over the first.
RegularReplaced ==
    /\ last_layout = REGULAR
    /\ op.name = "load_word_view"
    /\ Len(op.was) = 1
    /\ Len(open_words) = 1
    /\ op.was # open_words

\* C8: in compact mode the navigation stack holds as many detail screens as
\* open_words has entries.
CompactMirrors == last_layout = COMPACT => nav_stack = Len(open_words)

\* C9: load_word_view in compact mode appends the word to open_words and
\* pushes exactly one detail screen.
CompactOpenAppends ==
    (op.name = "load_word_view" /\ size_class = COMPACT) =>
        /\ open_words = Append(op.was, op.word)
        /\ op.log.pushes = 1

\* C10: load_word_view in regular mode makes open_words the opened word
\* alone; a pane already displaying the word is left alone (no fetch, no
\* run of select_word, same notes and mode), any other pane is reloaded with
\* the word and a fetch is started; the forced reload of the change-key link
\* reloads the displayed word and starts a fetch.
RegularOpenReloads ==
    [][/\ (/\ size_class = REGULAR
           /\ op'.name = "load_word_view"
           /\ (TableviewDidSelect \/ TextfieldShouldReturn)) =>
            /\ open_words' = <<op'.word>>
            /\ IF views[content_column].word = op'.word
               THEN /\ views' = views
                    /\ fetching' = fetching
                    /\ op'.log = NoLog
               ELSE /\ views'[content_column].word = op'.word
                    /\ views'[content_column].textview
                           = get_notes(entries, op'.word)
                    /\ fetching' = Append(fetching,
                           [view |-> content_column, word |-> op'.word,
                            stage |-> "define"])
                    /\ op'.log.selects = 1
       /\ (op'.name = "link_change_key" /\ ChangeKeyClicked) =>
            /\ views'[op'.view].word = views[op'.view].word
            /\ views'[op'.view].textview = get_notes(entries, op'.word)
            /\ fetching' = Append(fetching,
                   [view |-> op'.view, word |-> views[op'.view].word,
                    stage |-> "define"])
            /\ op'.log.loads = 1]_vars

\* C10 witness: in regular mode the word the pane displays, with edited
\* notes, was opened again and the pane was left alone.
RegularOpenSkipped ==
    /\ op.name = "load_word_view"
    /\ size_class = REGULAR
    /\ op.log = NoLog
    /\ views[content_column].word = op.word
    /\ open_words = <<op.word>>

\* C17: a coordinate that select_word assigned to the selection resolves,
\* through the sections the table shows, to the word the pane displays.
SelectedResolves ==
    op.log.sets > 0 =>
        /\ selected_rows[1] \in Coordinates(entries, query, fulltext_toggle)
        /\ tableview_cell_for_row(entries, query, fulltext_toggle,
                                  selected_rows[1][1], selected_rows[1][2])
               = views[op.view].word

\* C19: when open_words is not empty its last element is the word that the
\* active detail pane displays.
LastOpenDisplayed ==
    open_words # <<>> => open_words[Len(open_words)] = views[ActiveView].word

\* C11: after action_delete ran WordView.clear(), open_words is empty and the
\* cleared pane displays no word and no notes under the visible placeholder.
ClearEmpties ==
    (did.name = "action_delete" /\ did.cleared) =>
        /\ open_words = <<>>
        /\ views[content_column].word = Empty
        /\ views[content_column].textview = Empty
        /\ ~views[content_column].blank_hidden

\* C11 witness: clear() ran in compact mode, on the hidden regular pane
\* that still displayed the deleted word.
ClearedInCompact ==
    /\ did.name = "action_delete"
    /\ did.cleared
    /\ last_layout = COMPACT
    /\ did.removed # <<>>

\* C13: action_delete removes from the store exactly the entries that the
\* selected coordinates resolved to before it started, leaves the notes of
\* the others alone, and delete_multiple returns exactly those words.
DeleteExact ==
    [][ActionDelete =>
          LET resolved == {tableview_cell_for_row(entries, query, fulltext_toggle,
                               selected_rows[i][1], selected_rows[i][2]) :
                           i \in 1..Len(selected_rows)}
          IN  /\ DOMAIN entries' = DOMAIN entries \ resolved
              /\ \A w \in DOMAIN entries' : entries'[w] = entries[w]
              /\ {did'.removed[i] : i \in 1..Len(did'.removed)} = resolved
              /\ Len(did'.removed) = Cardinality(resolved)]_vars

\* C13 witness: two rows of one section were deleted, listed lowest row
\* first, and an entry that was not selected is left.
DeletedAscending ==
    /\ did.name = "action_delete"
    /\ Len(did.old_rows) = 2
    /\ did.old_rows[1][1] = did.old_rows[2][1]
    /\ did.old_rows[1][2] < did.old_rows[2][2]
    /\ Len(did.removed) = 2
    /\ DOMAIN entries # {}

\* C14: when load_json_file fails in action_import the store is unchanged,
\* save_json_file is not called and the table is not reloaded; save and
\* reload run together, after a load that succeeded.
ImportAllOrNothing ==
    [][ActionImport =>
          /\ did'.failed =>
                /\ entries' = entries
                /\ ~did'.saved
                /\ ~did'.reloaded
                /\ selected_rows' = selected_rows
          /\ did'.saved = did'.reloaded
          /\ did'.saved => ~did'.failed]_vars

\* C14 witness: an import failed with a store that is not empty and rows
\* selected in the table.
ImportFailed ==
    /\ did.name = "action_import"
    /\ did.failed
    /\ DOMAIN entries # {}
    /\ selected_rows # <<>>

\* C20: after action_delete no removed word is in open_words and no detail
\* pane on the screen displays one.
DeletedNotOpen ==
    did.name = "action_delete" =>
        \A i \in 1..Len(did.removed) :
            /\ ~InList(did.removed[i], open_words)
            /\ \A v \in ViewNames : Visible(v) => views[v].word # did.removed[i]

\* C12: when a note edit found a stale spelling of the word in the table, a
\* row was passed to delete_rows and after the row mutations the table holds
\* the sections of the store.
DedupRowDeleted ==
    (did.name = "textview_did_end_editing" /\ did.old_rows # <<>>) =>
        /\ did.deleted # <<>>
        /\ ~did.table.raised
        /\ did.table.rows = Sections(entries, query, fulltext_toggle)

\* C15: action_random on an empty store opens no word, starts no fetch,
\* leaves open_words and the panes alone and does not put 'Random word
\* opened.' on the HUD.
RandomOnEmpty ==
    [][(ActionRandom /\ DOMAIN entries = {}) =>
          /\ UNCHANGED <<open_words, views, fetching, nav_stack>>
          /\ did'.hud # action_random_hud]_vars

\* C16: textfield_did_change makes the scope NoteScope when the text begins
\* with '#' and leaves the scope as it was for any other text.
MarkerForcesNoteScope ==
    [][TextfieldDidChangeMarked =>
          fulltext_toggle' = IF query' # Empty /\ Head(query') = "#"
                             THEN TRUE ELSE fulltext_toggle]_vars

\* C18: every tuple passed to insert_rows and delete_rows is the (section,
\* row) coordinate that the store or the table reported, turned once into
\* the (row, section) that the table expects.
ConvertedOnce ==
    /\ did.deleted = [i \in 1..Len(did.old_rows) |->
                         <<did.old_rows[i][2], did.old_rows[i][1]>>]
    /\ did.inserted = [i \in 1..Len(did.new_rows) |->
                          <<did.new_rows[i][2], did.new_rows[i][1]>>]

\* C21: a completed definition fetch only adds a history entry and never
\* changes notes: the first part of load_definition leaves the entries alone,
\* vocab.set_word(word) is called only while the word has no notes, and
\* every entry keeps the notes it had, those of a note edit that ran between
\* the two parts included.
FetchKeepsNotes ==
    [][/\ LoadDefinition => entries' = entries
       /\ LoadDefinitionSave =>
            /\ get_notes(entries, Head(fetching).word) = Empty
            /\ \A v \in DOMAIN entries :
                 v \in DOMAIN entries' /\ entries'[v] = entries[v]]_vars

====
